---------------------------- MODULE Spec2Model ----------------------------
(***************************************************************************)
(* The APOD image cache of apod_desktop.py: a directory of image files and *)
(* an SQLite index (table apod) of the images it holds, keyed by the       *)
(* SHA-256 of the image bytes.                                             *)
(*                                                                         *)
(* The store (directory, database file, table, rows, files) is what stays  *)
(* on disk between calls and between runs.  Every function of the module   *)
(* is an operator from a store (and the outcome of the environment: the    *)
(* remote service, the disk, SQLite) to the store it leaves and what it    *)
(* returns or raises; the actions below are the callers of these           *)
(* functions: calls of the cache's functions one at a time (Spec), calls   *)
(* of the index's functions with any arguments (SpecIndex), the command    *)
(* line's main, one run after another (SpecMain), the viewer of            *)
(* apod_gui.py with its download threads (SpecGui), calls of the index's   *)
(* functions with the connections they leave open (SpecConn), and calls of *)
(* the path resolver (SpecPath).                                           *)
(***************************************************************************)
EXTENDS Integers, Sequences, FiniteSets, TLC

VARIABLES
    dirExists,    \* image_cache_dir is a directory on disk
    dbExists,     \* image_cache_db is a file on disk
    tableExists,  \* the database holds the table apod
    rows,         \* the rows of apod, in rowid order
    files,        \* the files of the cache directory: path -> bytes
    last,         \* the last completed call: what was called, with what, the result
    cacheCalls,   \* the completed add_apod_to_cache calls whose download gave bytes
    dbCalls,      \* the add_apod_to_db calls that returned, with the id each returned
    pc,           \* where main is
    apod_id,      \* main's apod_id
    initFailed,   \* main's init_apod_cache could not create the directory or schema
    guiEnabled,   \* the viewer's controls are enabled
    comboValues,  \* the titles in the viewer's combobox
    workers,      \* the viewer's download threads: where each is, and its locals
    openConns     \* connections opened and not closed (counted in SpecConn)

vars == <<dirExists, dbExists, tableExists, rows, files, last, cacheCalls,
          dbCalls, pc, apod_id, initFailed, guiEnabled, comboValues, workers,
          openConns>>

---------------------------------------------------------------------------
(* Bounds of the model. *)

\* add_apod_to_cache calls recorded in cacheCalls
MaxCalls == 2
\* rows the direct callers of add_apod_to_db, or the viewer's threads, may insert
MaxRows == 2
\* connections left open at a time, in SpecConn
MaxOpen == 2
\* characters of a title given to determine_apod_file_path
MaxTitleLen == 2
\* characters of a URL given to determine_apod_file_path
MaxUrlLen == 3

---------------------------------------------------------------------------
(* Values *)

\* An optional value: None is the empty sequence, a value v is <<v>>.
None == << >>
Some(v) == <<v>>
The(o) == o[1]

Return(v) == [kind |-> "return", val |-> v]
Raise(e) == [kind |-> "raise", val |-> e]

\* Strings are sequences of characters.
IllegalChars == {"\\", "/", "*", "?", ":", "\"", "<", ">", "|"}

Titles == {<<"a">>, <<"a", ":">>}
Explanations == {"e1", "e2"}
\* One URL with an extension, one without (its only dot is in the host).
U1 == <<"h", "/", "i", ".", "p">>
U2 == <<"h", ".", "x", "/", "i">>
Urls == {U1, U2}
\* Image bytes: sequences of byte values; the empty body included.
Bytes == {<< >>, <<1>>, <<2>>}

image_cache_dir == <<"images">>

\* hashlib.sha256(image_data).hexdigest(), tabulated for the byte strings of
\* the model (the real digests: distinct bytes, distinct digests).
sha256(data) ==
    CASE data = << >> -> "e3b0c44298fc1c149afbf4c8996fb92427ae41e4649b934ca495991b7852b855"
      [] data = <<1>> -> "4bf5122f344554c53bde2ebb8cd2b7e3d1600ad631c385a5d7cce23c7785459a"
      [] data = <<2>> -> "dbc1b4c900ffe48d575b5da5c638040125f65db0fe3e24494b76ea986457d986"
      [] data = <<3>> -> "084fed08b978af4d7d196a7446a86b58009e636b611db16211b65a9aadff29c5"

Digests == {sha256(b) : b \in Bytes}

---------------------------------------------------------------------------
(* The path resolver *)

\* The greatest index of character c in string p, 0 when it has none.
LastIndexOf(p, c) ==
    LET hits == {i \in 1..Len(p) : p[i] = c}
    IN  IF hits = {} THEN 0 ELSE CHOOSE i \in hits : \A j \in hits : j <= i

\* os.path.splitext(p)[1]: from the last dot of the last path component, if a
\* character other than a dot precedes it in that component; else empty.
splitext_ext(p) ==
    LET sep == LastIndexOf(p, "/")
        dot == LastIndexOf(p, ".")
    IN  IF dot > sep /\ \E k \in (sep + 1)..(dot - 1) : p[k] # "."
        THEN SubSeq(p, dot, Len(p))
        ELSE << >>

get_file_extension(image_url) ==
    LET ext == splitext_ext(image_url)
    IN  IF ext = << >> THEN <<".", "j", "p", "g">> ELSE ext

\* re.sub(r'[\\/*?:"<>|]', '', image_title)
clean_file_name(image_title) ==
    LET Keep(c) == c \notin IllegalChars
    IN  SelectSeq(image_title, Keep)

\* os.path.join(a, b)
path_join(a, b) ==
    IF b # << >> /\ b[1] = "/" THEN b ELSE a \o <<"/">> \o b

determine_apod_file_path(image_title, image_url) ==
    path_join(image_cache_dir,
              clean_file_name(image_title) \o get_file_extension(image_url))

---------------------------------------------------------------------------
(* The store, and the index functions *)

Store ==
    [dir |-> dirExists, db |-> dbExists, table |-> tableExists,
     rows |-> rows, files |-> files]

SetStore(s) ==
    /\ dirExists' = s.dir
    /\ dbExists' = s.db
    /\ tableExists' = s.table
    /\ rows' = s.rows
    /\ files' = s.files

\* What SQLite may do to one statement: run it, or fail it (I/O error, disk
\* full, database locked).
DbFaults == {"ok", "execute_error"}

\* sqlite3.connect(image_cache_db): opens the file, creating it (empty) when
\* absent; fails when its directory does not exist.
connect(s) ==
    IF s.dir THEN [ok |-> TRUE, s |-> [s EXCEPT !.db = TRUE]]
    ELSE [ok |-> FALSE, s |-> s]

\* Whether a statement on table apod runs: the table exists and SQLite does
\* not fail it.
Runs(s, fault) == s.table /\ fault = "ok"

\* The connections a function leaves open when it raises before its
\* conn.close(): the one it opened, if the connect succeeded.  (open, in the
\* results below: the connections the call opened and did not close.)
Unclosed(c) == IF c.ok THEN 1 ELSE 0

MaxOf(S) == CHOOSE x \in S : \A y \in S : y <= x
MinOf(S) == CHOOSE x \in S : \A y \in S : x <= y

Ids(rs) == {rs[k].id : k \in 1..Len(rs)}

\* A faulty variant of NextId: the greatest id in use, given out again.
NextIdReused(rs) == IF rs = << >> THEN 1 ELSE MaxOf(Ids(rs))

\* The rowid SQLite gives a row inserted without one (INTEGER PRIMARY KEY):
\* one more than the greatest in the table, 1 in an empty table.
NextId(rs) == IF rs = << >> THEN 1 ELSE MaxOf(Ids(rs)) + 1

\* A faulty variant of RowsWithSha: the digest compared with another column.
RowsWithShaWrongColumn(rs, image_sha256) ==
    SelectSeq(rs, LAMBDA r : r.explanation = image_sha256)

\* The rows a SELECT ... WHERE column = value scans, in rowid order (the table
\* has no index but its rowid, so the scan is in id order).
RowsWithSha(rs, image_sha256) ==
    SelectSeq(rs, LAMBDA r : r.sha256 = image_sha256)

RowsWithId(rs, image_id) ==
    SelectSeq(rs, LAMBDA r : r.id = image_id)

RowsWithTitle(rs, title) ==
    SelectSeq(rs, LAMBDA r : r.title = title)

\* A faulty variant of fetchone: the last row of the result.
fetchoneLast(result) ==
    IF result = << >> THEN None ELSE Some(result[Len(result)])

\* cursor.fetchone(): the first row of the result, None when it is empty.
fetchone(result) ==
    IF result = << >> THEN None ELSE Some(result[1])

\* A faulty variant of Info: the explanation taken from another column.
InfoWrongColumn(r) ==
    [title |-> r.title, explanation |-> r.sha256, file_path |-> r.file_path]

\* The dictionary get_apod_info and get_apod_info_by_title build of a row.
Info(r) ==
    [title |-> r.title, explanation |-> r.explanation, file_path |-> r.file_path]

add_apod_to_db(s, title, explanation, file_path, image_sha256, fault) ==
    LET c == connect(s)
        new == [id |-> NextId(c.s.rows), title |-> title,
                explanation |-> explanation, file_path |-> file_path,
                sha256 |-> image_sha256]
    IN  IF ~c.ok \/ ~Runs(c.s, fault)
        THEN [s |-> c.s, out |-> Raise("sqlite3.Error"), open |-> Unclosed(c)]
        ELSE [s |-> [c.s EXCEPT !.rows = Append(@, new)], out |-> Return(new.id),
              open |-> 0]

\* A faulty variant of get_apod_id_from_db: it never finds a row.
get_apod_id_from_db_miss(s, image_sha256, fault) ==
    LET c == connect(s)
    IN  IF ~c.ok \/ ~Runs(c.s, fault)
        THEN [s |-> c.s, out |-> Raise("sqlite3.Error"), open |-> Unclosed(c)]
        ELSE [s |-> c.s, out |-> Return(0), open |-> 0]

\* A faulty variant of get_apod_id_from_db: the SELECT without its WHERE.
get_apod_id_from_db_any(s, image_sha256, fault) ==
    LET c == connect(s)
        result == fetchone(c.s.rows)
    IN  IF ~c.ok \/ ~Runs(c.s, fault)
        THEN [s |-> c.s, out |-> Raise("sqlite3.Error"), open |-> Unclosed(c)]
        ELSE [s |-> c.s, out |-> Return(IF result = None THEN 0 ELSE The(result).id),
              open |-> 0]

get_apod_id_from_db(s, image_sha256, fault) ==
    LET c == connect(s)
        result == fetchone(RowsWithSha(c.s.rows, image_sha256))
    IN  IF ~c.ok \/ ~Runs(c.s, fault)
        THEN [s |-> c.s, out |-> Raise("sqlite3.Error"), open |-> Unclosed(c)]
        ELSE [s |-> c.s, out |-> Return(IF result = None THEN 0 ELSE The(result).id),
              open |-> 0]

get_apod_info(s, image_id, fault) ==
    LET c == connect(s)
        result == fetchone(RowsWithId(c.s.rows, image_id))
    IN  IF ~c.ok \/ ~Runs(c.s, fault)
        THEN [s |-> c.s, out |-> Raise("sqlite3.Error"), open |-> Unclosed(c)]
        ELSE [s |-> c.s,
              out |-> Return(IF result = None THEN None ELSE Some(Info(The(result)))),
              open |-> 0]

get_apod_info_by_title(s, title, fault) ==
    LET c == connect(s)
        result == fetchone(RowsWithTitle(c.s.rows, title))
    IN  IF ~c.ok \/ ~Runs(c.s, fault)
        THEN [s |-> c.s, out |-> Raise("sqlite3.Error"), open |-> Unclosed(c)]
        ELSE [s |-> c.s,
              out |-> Return(IF result = None THEN None ELSE Some(Info(The(result)))),
              open |-> 0]

\* The connect is outside the try; a failed query is logged and then
\* `return titles` finds titles unbound.  The finally clause closes the
\* connection on both paths.
get_all_apod_titles(s, fault) ==
    LET c == connect(s)
    IN  IF ~c.ok THEN [s |-> c.s, out |-> Raise("sqlite3.Error"), open |-> 0]
        ELSE IF ~Runs(c.s, fault)
        THEN [s |-> c.s, out |-> Raise("UnboundLocalError"), open |-> 0]
        ELSE [s |-> c.s,
              out |-> Return([k \in 1..Len(c.s.rows) |-> c.s.rows[k].title]),
              open |-> 0]

load_data(s, fault) ==
    LET c == connect(s)
    IN  IF ~c.ok \/ ~Runs(c.s, fault)
        THEN [s |-> c.s, out |-> Raise("sqlite3.Error"), open |-> Unclosed(c)]
        ELSE [s |-> c.s, out |-> Return(c.s.rows), open |-> 0]

---------------------------------------------------------------------------
(* init_apod_cache *)

\* What the environment does to init_apod_cache's two creations.
InitEnvs ==
    [mkdir : {"ok", "error"}, create : {"ok", "connect_error", "execute_error"}]

\* failed: a creation was attempted and did not succeed.  The except clause
\* for a failed CREATE TABLE skips the conn.close() of the try.
init_apod_cache(s, env) ==
    IF ~s.dir /\ env.mkdir = "error"
    THEN [s |-> s, out |-> Raise("OSError"), failed |-> TRUE, open |-> 0]
    ELSE LET s1 == [s EXCEPT !.dir = TRUE]
         IN  IF s1.db
             THEN [s |-> s1, out |-> Return(None), failed |-> FALSE, open |-> 0]
             ELSE CASE env.create = "ok" ->
                         [s |-> [s1 EXCEPT !.db = TRUE, !.table = TRUE],
                          out |-> Return(None), failed |-> FALSE, open |-> 0]
                    [] env.create = "connect_error" ->
                         [s |-> s1, out |-> Return(None), failed |-> TRUE, open |-> 0]
                    [] env.create = "execute_error" ->
                         [s |-> [s1 EXCEPT !.db = TRUE],
                          out |-> Return(None), failed |-> TRUE, open |-> 1]

---------------------------------------------------------------------------
(* The remote service, as add_apod_to_cache sees it *)

\* The APOD dictionaries the service may answer with (None: the key is
\* absent).  A1 and A2 have different titles that clean to the same file name,
\* and the same extension; A3 has A1's title and another extension.
ApodInfos ==
    { [title |-> <<"a">>, explanation |-> "e1", media_type |-> "image",
       hdurl |-> Some(U1), url |-> Some(U2), thumbnail_url |-> None],
      [title |-> <<"a", ":">>, explanation |-> "e2", media_type |-> "image",
       hdurl |-> None, url |-> Some(U1), thumbnail_url |-> None],
      [title |-> <<"a">>, explanation |-> "e2", media_type |-> "video",
       hdurl |-> None, url |-> Some(U1), thumbnail_url |-> Some(U2)],
      [title |-> <<"a", ":">>, explanation |-> "e1", media_type |-> "video",
       hdurl |-> None, url |-> Some(U1), thumbnail_url |-> None],
      [title |-> <<"a">>, explanation |-> "e1", media_type |-> "other",
       hdurl |-> None, url |-> Some(U1), thumbnail_url |-> None] }

\* What one call gets from the network: apod_api.get_apod_info's dictionary
\* (None: the request failed) and download_image's bytes (None: it failed).
Responses ==
    [info : {Some(i) : i \in ApodInfos} \cup {None},
     data : {Some(b) : b \in Bytes} \cup {None}]

get_apod_image_url(apod_info_dict) ==
    LET m == apod_info_dict
    IN  CASE m.media_type = "image" ->
                IF m.hdurl # None THEN m.hdurl ELSE m.url
          [] m.media_type = "video" -> m.thumbnail_url
          [] OTHER -> None

---------------------------------------------------------------------------
(* The cache service *)

\* What the disk and SQLite do to one add_apod_to_cache call: nothing, or fail
\* one of its steps (the first failure ends the call, so one is all a call sees).
CacheFaults == {"none", "lookup", "save_open", "save_write", "insert"}

\* A faulty variant of save_image_file: True whether or not the write failed.
save_image_file_unchecked(s, image_data, file_path, fault) ==
    IF ~s.dir \/ fault = "save_open" THEN [s |-> s, out |-> Return(TRUE)]
    ELSE IF fault = "save_write"
    THEN [s |-> [s EXCEPT !.files = (file_path :> << >>) @@ @], out |-> Return(TRUE)]
    ELSE [s |-> [s EXCEPT !.files = (file_path :> image_data) @@ @],
          out |-> Return(TRUE)]

\* open(file_path, 'wb') creates or truncates the file; it fails when the
\* directory is missing.  A failed write leaves the file truncated.
save_image_file(s, image_data, file_path, fault) ==
    IF ~s.dir \/ fault = "save_open" THEN [s |-> s, out |-> Return(FALSE)]
    ELSE IF fault = "save_write"
    THEN [s |-> [s EXCEPT !.files = (file_path :> << >>) @@ @], out |-> Return(FALSE)]
    ELSE [s |-> [s EXCEPT !.files = (file_path :> image_data) @@ @],
          out |-> Return(TRUE)]

DbFault(fault, step) == IF fault = step THEN "execute_error" ELSE "ok"

\* failed: the step that failed ("none": none did; "empty": the download gave
\* no bytes, which `not image_data` takes for a failed download); wrote: save_image_file
\* returned True; inserted: add_apod_to_db returned.
Ended(s, out, failed) ==
    [s |-> s, out |-> out, failed |-> failed, wrote |-> FALSE, inserted |-> FALSE]

add_apod_to_cache(s, resp, fault) ==
    IF resp.info = None THEN Ended(s, Return(0), "metadata")
    ELSE LET apod_info == The(resp.info)
             url == get_apod_image_url(apod_info)
             image_url == The(url)
             image_data == The(resp.data)
         IN
         IF url = None THEN Ended(s, Return(0), "url")
         ELSE IF resp.data = None THEN Ended(s, Return(0), "download")
         ELSE IF image_data = << >> THEN Ended(s, Return(0), "empty")
         ELSE LET image_sha256 == sha256(image_data)
                  q == get_apod_id_from_db(s, image_sha256, DbFault(fault, "lookup"))
                  file_path == determine_apod_file_path(apod_info.title, image_url)
                  w == save_image_file(q.s, image_data, file_path, fault)
                  a == add_apod_to_db(w.s, apod_info.title, apod_info.explanation,
                                      file_path, image_sha256, DbFault(fault, "insert"))
              IN
              IF q.out.kind = "raise" THEN Ended(q.s, q.out, "lookup")
              ELSE IF q.out.val # 0 THEN Ended(q.s, Return(q.out.val), "none")
              ELSE IF ~w.out.val THEN Ended(w.s, Return(0), "save")
              ELSE IF a.out.kind = "raise"
              THEN [s |-> a.s, out |-> a.out, failed |-> "insert",
                    wrote |-> TRUE, inserted |-> FALSE]
              ELSE [s |-> a.s, out |-> a.out, failed |-> "none",
                    wrote |-> TRUE, inserted |-> TRUE]

---------------------------------------------------------------------------
(* The callers *)

Called(op, arg, out, failed) ==
    [op |-> op, arg |-> arg, out |-> out, failed |-> failed]

\* The viewer's download threads: downloadImage starts one per click, and
\* nothing waits for the one before; two are enough to overlap.
Workers == {"w1", "w2"}

\* A thread's place in add_apod_to_cache and its locals apod_info and
\* image_data; seen: the rows the table had when its lookup ran; out: what
\* its add_apod_to_cache returned or raised.
IdleWorker ==
    [pc |-> "idle", apod_info |-> None, image_data |-> None, seen |-> 0,
     out |-> None]

Init ==
    /\ dirExists = FALSE
    /\ dbExists = FALSE
    /\ tableExists = FALSE
    /\ rows = << >>
    /\ files = << >>
    /\ last = Called("none", None, Return(None), "none")
    /\ cacheCalls = << >>
    /\ dbCalls = << >>
    /\ pc = "start"
    /\ apod_id = 0
    /\ initFailed = FALSE
    /\ guiEnabled = FALSE
    /\ comboValues = << >>
    /\ workers = [w \in Workers |-> IdleWorker]
    /\ openConns = 0

main_vars == <<pc, apod_id, initFailed>>
gui_vars == <<guiEnabled, comboValues, workers>>

\* The add_apod_to_db calls of a step, as the rows it added: each with the
\* arguments it was given and the id it returned.
Inserted(s) == SubSeq(s.rows, Len(rows) + 1, Len(s.rows))

\* The ids a caller may ask for: those in use, 0 and the next one.
AskedIds == 0..(Len(rows) + 1)

(* Calls of the cache's functions, one at a time, in any order *)

CallInit ==
    /\ \E env \in InitEnvs :
          LET r == init_apod_cache(Store, env)
          IN  /\ SetStore(r.s)
              /\ last' = Called("init_apod_cache", None, r.out,
                                IF r.failed THEN "init" ELSE "none")
    /\ UNCHANGED <<cacheCalls, dbCalls, main_vars, gui_vars, openConns>>

AddToCache(resp, fault) ==
    LET r == add_apod_to_cache(Store, resp, fault)
        gotBytes == /\ resp.info # None
                    /\ get_apod_image_url(The(resp.info)) # None
                    /\ resp.data # None
    IN  /\ Len(cacheCalls) < MaxCalls
        /\ SetStore(r.s)
        /\ last' = Called("add_apod_to_cache", None, r.out, r.failed)
        /\ cacheCalls' =
              IF gotBytes
              THEN Append(cacheCalls, [data |-> The(resp.data), out |-> r.out,
                                       wrote |-> r.wrote, inserted |-> r.inserted])
              ELSE cacheCalls
        /\ dbCalls' = dbCalls \o Inserted(r.s)

CallAddToCache ==
    /\ \E resp \in Responses, fault \in CacheFaults : AddToCache(resp, fault)
    /\ UNCHANGED <<main_vars, gui_vars, openConns>>

CallGetInfo ==
    /\ \E image_id \in AskedIds, fault \in DbFaults :
          LET r == get_apod_info(Store, image_id, fault)
          IN  /\ SetStore(r.s)
              /\ last' = Called("get_apod_info", image_id, r.out, "none")
    /\ UNCHANGED <<cacheCalls, dbCalls, main_vars, gui_vars, openConns>>

CallGetInfoByTitle ==
    /\ \E title \in Titles, fault \in DbFaults :
          LET r == get_apod_info_by_title(Store, title, fault)
          IN  /\ SetStore(r.s)
              /\ last' = Called("get_apod_info_by_title", title, r.out, "none")
    /\ UNCHANGED <<cacheCalls, dbCalls, main_vars, gui_vars, openConns>>

CallGetAllTitles ==
    /\ \E fault \in DbFaults :
          LET r == get_all_apod_titles(Store, fault)
          IN  /\ SetStore(r.s)
              /\ last' = Called("get_all_apod_titles", None, r.out, "none")
    /\ UNCHANGED <<cacheCalls, dbCalls, main_vars, gui_vars, openConns>>

CallLoadData ==
    /\ \E fault \in DbFaults :
          LET r == load_data(Store, fault)
          IN  /\ SetStore(r.s)
              /\ last' = Called("load_data", None, r.out, "none")
    /\ UNCHANGED <<cacheCalls, dbCalls, main_vars, gui_vars, openConns>>

Next ==
    \/ CallInit
    \/ CallAddToCache
    \/ CallGetInfo
    \/ CallGetInfoByTitle
    \/ CallGetAllTitles
    \/ CallLoadData

Spec == Init /\ [][Next]_vars

(* Calls of the index's functions, with any arguments *)

\* What a caller may insert.
IndexArgs ==
    { [title |-> t, explanation |-> x[1], file_path |-> x[2], sha256 |-> d] :
        t \in Titles,
        x \in {<<"e1", determine_apod_file_path(<<"a">>, U1)>>,
               <<"e2", determine_apod_file_path(<<"a">>, U2)>>},
        d \in {sha256(<<1>>), sha256(<<2>>)} }

CallAddToDb ==
    /\ Len(dbCalls) < MaxRows
    /\ \E a \in IndexArgs, fault \in DbFaults :
          LET r == add_apod_to_db(Store, a.title, a.explanation, a.file_path,
                                  a.sha256, fault)
          IN  /\ SetStore(r.s)
              /\ last' = Called("add_apod_to_db", a, r.out, "none")
              /\ dbCalls' = IF r.out.kind = "return"
                            THEN Append(dbCalls, [id |-> r.out.val] @@ a)
                            ELSE dbCalls
    /\ UNCHANGED <<cacheCalls, main_vars, gui_vars, openConns>>

CallGetIdFromDb ==
    /\ \E image_sha256 \in Digests, fault \in DbFaults :
          LET r == get_apod_id_from_db(Store, image_sha256, fault)
          IN  /\ SetStore(r.s)
              /\ last' = Called("get_apod_id_from_db", image_sha256, r.out, "none")
    /\ UNCHANGED <<cacheCalls, dbCalls, main_vars, gui_vars, openConns>>

NextIndex ==
    \/ CallInit
    \/ CallAddToDb
    \/ CallGetIdFromDb
    \/ CallGetInfo
    \/ CallGetInfoByTitle
    \/ CallGetAllTitles
    \/ CallLoadData

SpecIndex == Init /\ [][NextIndex]_vars

(* One run of the script after another *)

\* main, line 29: get_apod_date() exits on a malformed date argument.
MainDate ==
    /\ pc = "start"
    /\ \E valid \in BOOLEAN : pc' = IF valid THEN "init" ELSE "exit"
    /\ UNCHANGED <<dirExists, dbExists, tableExists, rows, files, last,
                   cacheCalls, dbCalls, apod_id, initFailed, gui_vars, openConns>>

\* main, line 30: init_apod_cache(); an exception ends the run.
MainInit ==
    /\ pc = "init"
    /\ \E env \in InitEnvs :
          LET r == init_apod_cache(Store, env)
          IN  /\ SetStore(r.s)
              /\ last' = Called("init_apod_cache", None, r.out,
                                IF r.failed THEN "init" ELSE "none")
              /\ initFailed' = r.failed
              /\ pc' = IF r.out.kind = "raise" THEN "exit" ELSE "add"
    /\ UNCHANGED <<cacheCalls, dbCalls, apod_id, gui_vars, openConns>>

\* main, line 31: apod_id = add_apod_to_cache(apod_date)
MainAdd ==
    /\ pc = "add"
    /\ \E resp \in Responses, fault \in CacheFaults :
          /\ AddToCache(resp, fault)
          /\ pc' = IF last'.out.kind = "raise" THEN "exit" ELSE "info"
          /\ apod_id' = IF last'.out.kind = "raise" THEN apod_id ELSE last'.out.val
    /\ UNCHANGED <<initFailed, gui_vars, openConns>>

\* main, lines 32-37: apod_info = get_apod_info(apod_id), then the wallpaper
\* or the error message.
MainInfo ==
    /\ pc = "info"
    /\ \E fault \in DbFaults :
          LET r == get_apod_info(Store, apod_id, fault)
          IN  /\ SetStore(r.s)
              /\ last' = Called("get_apod_info", apod_id, r.out, "none")
    /\ pc' = "exit"
    /\ UNCHANGED <<cacheCalls, dbCalls, apod_id, initFailed, gui_vars, openConns>>

\* The process ends; the script may be run again.
MainExit ==
    /\ pc = "exit"
    /\ pc' = "start"
    /\ apod_id' = 0
    /\ initFailed' = FALSE
    /\ UNCHANGED <<dirExists, dbExists, tableExists, rows, files, last,
                   cacheCalls, dbCalls, gui_vars, openConns>>

NextMain ==
    \/ MainDate
    \/ MainInit
    \/ MainAdd
    \/ MainInfo
    \/ MainExit

SpecMain == Init /\ [][NextMain]_vars

(* The viewer (apod_gui.py), its download threads step by step *)

Active == Cardinality({w \in Workers : workers[w].pc # "idle"})

Done(me, out) ==
    [pc |-> "done", apod_info |-> None, image_data |-> me.image_data,
     seen |-> 0, out |-> Some(out)]

\* listloadimages: the combobox takes the titles when there are any; an
\* exception is logged.
Listed(out) ==
    IF out.kind = "return" /\ out.val # << >> THEN out.val ELSE comboValues

\* __init__ -> loadfromDB -> _loadfromDB: load_data(), and when it returns,
\* enable_controls, which ends in listloadimages.  The viewer does not call
\* init_apod_cache.  A failed load shows an error and leaves the controls
\* disabled; the user may start the viewer again.
GuiLoad ==
    /\ ~guiEnabled
    /\ \E fault \in DbFaults, listFault \in DbFaults :
          LET r == load_data(Store, fault)
              l == get_all_apod_titles(r.s, listFault)
          IN  IF r.out.kind = "raise"
              THEN /\ SetStore(r.s)
                   /\ last' = Called("load_data", None, r.out, "none")
                   /\ UNCHANGED <<guiEnabled, comboValues>>
              ELSE /\ SetStore(l.s)
                   /\ last' = Called("get_all_apod_titles", None, l.out, "none")
                   /\ guiEnabled' = TRUE
                   /\ comboValues' = Listed(l.out)
    /\ UNCHANGED <<cacheCalls, dbCalls, main_vars, workers, openConns>>

\* selectimage -> loadimages_display, for a title of the combobox.
GuiSelect ==
    /\ guiEnabled
    /\ \E k \in 1..Len(comboValues), fault \in DbFaults :
          LET r == get_apod_info_by_title(Store, comboValues[k], fault)
          IN  /\ SetStore(r.s)
              /\ last' = Called("get_apod_info_by_title", comboValues[k], r.out,
                                "none")
    /\ UNCHANGED <<cacheCalls, dbCalls, main_vars, gui_vars, openConns>>

\* What the viewer's downloads get from the network: image dictionaries (two
\* titles, one file name), dictionaries without an image URL, or none; any
\* bytes, or none.
ViewerResponses ==
    [info : {Some(i) : i \in {j \in ApodInfos : \/ j.media_type = "image"
                                                \/ j.thumbnail_url = None}}
            \cup {None},
     data : {Some(b) : b \in Bytes} \cup {None}]

\* downloadImage: a new thread runs cachedownload; add_apod_to_cache, lines
\* 95-105: the metadata, the URL and the bytes, or 0.
GuiDownload(w) ==
    /\ guiEnabled
    /\ workers[w].pc = "idle"
    /\ Len(rows) + Active < MaxRows
    /\ \E resp \in ViewerResponses :
          workers' = [workers EXCEPT ![w] =
              IF \/ resp.info = None
                 \/ get_apod_image_url(The(resp.info)) = None
                 \/ resp.data = None
                 \/ The(resp.data) = << >>
              THEN Done(IdleWorker, Return(0))
              ELSE [pc |-> "lookup", apod_info |-> resp.info,
                    image_data |-> resp.data, seen |-> 0, out |-> None]]
    /\ UNCHANGED <<dirExists, dbExists, tableExists, rows, files, last,
                   cacheCalls, dbCalls, main_vars, guiEnabled, comboValues,
                   openConns>>

\* add_apod_to_cache, lines 107-110: the digest and the lookup; a hit returns
\* the id found.
WorkerLookup(w) ==
    /\ workers[w].pc = "lookup"
    /\ \E fault \in DbFaults :
          LET me == workers[w]
              q == get_apod_id_from_db(Store, sha256(The(me.image_data)), fault)
          IN  /\ SetStore(q.s)
              /\ workers' = [workers EXCEPT ![w] =
                    IF q.out.kind = "raise" \/ q.out.val # 0
                    THEN Done(me, q.out)
                    ELSE [me EXCEPT !.pc = "save", !.seen = Len(rows)]]
    /\ UNCHANGED <<last, cacheCalls, dbCalls, main_vars, guiEnabled,
                   comboValues, openConns>>

\* add_apod_to_cache, lines 112-114: the path and the file; 0 when the file
\* was not saved.
WorkerSave(w) ==
    /\ workers[w].pc = "save"
    /\ \E fault \in {"none", "save_open", "save_write"} :
          LET me == workers[w]
              apod_info == The(me.apod_info)
              file_path == determine_apod_file_path(
                               apod_info.title, The(get_apod_image_url(apod_info)))
              s == save_image_file(Store, The(me.image_data), file_path, fault)
          IN  /\ SetStore(s.s)
              /\ workers' = [workers EXCEPT ![w] =
                    IF s.out.val THEN [me EXCEPT !.pc = "insert"]
                    ELSE Done(me, Return(0))]
    /\ UNCHANGED <<last, cacheCalls, dbCalls, main_vars, guiEnabled,
                   comboValues, openConns>>

\* add_apod_to_cache, line 116: the insert, and the id it returns.
WorkerInsert(w) ==
    /\ workers[w].pc = "insert"
    /\ \E fault \in DbFaults :
          LET me == workers[w]
              apod_info == The(me.apod_info)
              file_path == determine_apod_file_path(
                               apod_info.title, The(get_apod_image_url(apod_info)))
              a == add_apod_to_db(Store, apod_info.title, apod_info.explanation,
                                  file_path, sha256(The(me.image_data)), fault)
          IN  /\ SetStore(a.s)
              /\ dbCalls' = dbCalls \o Inserted(a.s)
              /\ workers' = [workers EXCEPT ![w] = Done(me, a.out)]
    /\ UNCHANGED <<last, cacheCalls, main_vars, guiEnabled, comboValues,
                   openConns>>

\* cachedownload: a non-zero id has the titles listed again; 0
\* shows an error; an exception ends the thread.
WorkerEnd(w) ==
    /\ workers[w].pc = "done"
    /\ workers' = [workers EXCEPT ![w] = IdleWorker]
    /\ LET out == The(workers[w].out)
       IN  IF out.kind = "return" /\ out.val # 0
           THEN \E fault \in DbFaults :
                   LET l == get_all_apod_titles(Store, fault)
                   IN  /\ SetStore(l.s)
                       /\ last' = Called("get_all_apod_titles", None, l.out, "none")
                       /\ comboValues' = Listed(l.out)
           ELSE UNCHANGED <<dirExists, dbExists, tableExists, rows, files, last,
                            comboValues>>
    /\ UNCHANGED <<cacheCalls, dbCalls, main_vars, guiEnabled, openConns>>

\* The script's init_apod_cache (CallInit) is what creates the cache the
\* viewer reads.
NextGui ==
    \/ CallInit
    \/ GuiLoad
    \/ GuiSelect
    \/ \E w \in Workers : GuiDownload(w)
    \/ \E w \in Workers : WorkerLookup(w)
    \/ \E w \in Workers : WorkerSave(w)
    \/ \E w \in Workers : WorkerInsert(w)
    \/ \E w \in Workers : WorkerEnd(w)

SpecGui == Init /\ [][NextGui]_vars

(* Calls of the index's functions, and the connections they leave open *)

\* A call of an index function: the store it leaves, its result, and the
\* connection it opened if it did not close it.
Tracked(op, arg, r) ==
    /\ openConns < MaxOpen
    /\ SetStore(r.s)
    /\ last' = Called(op, arg, r.out, "none")
    /\ openConns' = openConns + r.open

ConnInit ==
    /\ \E env \in InitEnvs :
          Tracked("init_apod_cache", None, init_apod_cache(Store, env))
    /\ UNCHANGED <<cacheCalls, dbCalls, main_vars, gui_vars>>

ConnAddToDb ==
    /\ Len(dbCalls) < MaxRows
    /\ \E a \in IndexArgs, fault \in DbFaults :
          LET r == add_apod_to_db(Store, a.title, a.explanation, a.file_path,
                                  a.sha256, fault)
          IN  /\ Tracked("add_apod_to_db", a, r)
              /\ dbCalls' = IF r.out.kind = "return"
                            THEN Append(dbCalls, [id |-> r.out.val] @@ a)
                            ELSE dbCalls
    /\ UNCHANGED <<cacheCalls, main_vars, gui_vars>>

ConnGetIdFromDb ==
    /\ \E image_sha256 \in Digests, fault \in DbFaults :
          Tracked("get_apod_id_from_db", image_sha256,
                  get_apod_id_from_db(Store, image_sha256, fault))
    /\ UNCHANGED <<cacheCalls, dbCalls, main_vars, gui_vars>>

ConnGetInfo ==
    /\ \E image_id \in AskedIds, fault \in DbFaults :
          Tracked("get_apod_info", image_id, get_apod_info(Store, image_id, fault))
    /\ UNCHANGED <<cacheCalls, dbCalls, main_vars, gui_vars>>

ConnGetInfoByTitle ==
    /\ \E title \in Titles, fault \in DbFaults :
          Tracked("get_apod_info_by_title", title,
                  get_apod_info_by_title(Store, title, fault))
    /\ UNCHANGED <<cacheCalls, dbCalls, main_vars, gui_vars>>

ConnGetAllTitles ==
    /\ \E fault \in DbFaults :
          Tracked("get_all_apod_titles", None, get_all_apod_titles(Store, fault))
    /\ UNCHANGED <<cacheCalls, dbCalls, main_vars, gui_vars>>

ConnLoadData ==
    /\ \E fault \in DbFaults :
          Tracked("load_data", None, load_data(Store, fault))
    /\ UNCHANGED <<cacheCalls, dbCalls, main_vars, gui_vars>>

\* No code closes a connection a function left open; the interpreter does,
\* when it collects the Connection object, at a time of its choosing.
Finalize ==
    /\ openConns > 0
    /\ openConns' = openConns - 1
    /\ UNCHANGED <<dirExists, dbExists, tableExists, rows, files, last,
                   cacheCalls, dbCalls, main_vars, gui_vars>>

NextConn ==
    \/ ConnInit
    \/ ConnAddToDb
    \/ ConnGetIdFromDb
    \/ ConnGetInfo
    \/ ConnGetInfoByTitle
    \/ ConnGetAllTitles
    \/ ConnLoadData
    \/ Finalize

SpecConn == Init /\ [][NextConn]_vars

(* Calls of the path resolver, with any title and any URL *)

\* The strings over the characters cs of at most n characters.
StringsUpTo(cs, n) == UNION {[1..k -> cs] : k \in 0..n}

\* Titles: letters and characters the resolver strips.
AnyTitles == StringsUpTo({"a", "b", ":", "/"}, MaxTitleLen)
\* URLs: not empty (add_apod_to_cache returns 0 before it resolves a path for
\* an empty URL); with path separators, dots and a query string's "?".
AnyUrls == StringsUpTo({"h", "/", ".", "?"}, MaxUrlLen) \ {<< >>}

CallDeterminePath ==
    /\ \E image_title \in AnyTitles, image_url \in AnyUrls :
          last' = Called("determine_apod_file_path",
                         [title |-> image_title, url |-> image_url],
                         Return(determine_apod_file_path(image_title, image_url)),
                         "none")
    /\ UNCHANGED <<dirExists, dbExists, tableExists, rows, files, cacheCalls,
                   dbCalls, main_vars, gui_vars, openConns>>

NextPath == CallDeterminePath

SpecPath == Init /\ [][NextPath]_vars

---------------------------------------------------------------------------
(* The claims *)

ReturnedId(c) == c.out.kind = "return" /\ c.out.val # 0
CallPairs == {p \in (1..Len(cacheCalls)) \X (1..Len(cacheCalls)) : p[1] < p[2]}
NoTwoRowsSameSha ==
    \A j, k \in 1..Len(rows) : j # k => rows[j].sha256 # rows[k].sha256

\* C1 as stated: of two add_apod_to_cache calls, one after the other, whose
\* downloads gave the same (non-empty) bytes and which both returned, both
\* return the same non-zero id and the second writes no file and inserts no
\* row; and no two rows have the same sha256.
C1_Original ==
    /\ NoTwoRowsSameSha
    /\ \A p \in CallPairs :
          LET a == cacheCalls[p[1]]
              b == cacheCalls[p[2]]
          IN  (a.data = b.data /\ a.data # << >>
               /\ a.out.kind = "return" /\ b.out.kind = "return")
              => /\ a.out.val = b.out.val
                 /\ a.out.val # 0
                 /\ ~b.wrote /\ ~b.inserted

\* C1, amended: two non-overlapping add_apod_to_cache calls whose downloads
\* gave the same bytes and which both return a non-zero id return the same id;
\* once a call has returned a non-zero id for those bytes, no later call for
\* them writes a file, inserts a row or returns another value (it may raise);
\* at most one call inserts a row for them; no two rows have the same sha256.
C1_DedupIdempotence ==
    /\ NoTwoRowsSameSha
    /\ \A p \in CallPairs :
          LET a == cacheCalls[p[1]]
              b == cacheCalls[p[2]]
          IN  a.data = b.data
              => /\ (ReturnedId(a) /\ ReturnedId(b)) => a.out.val = b.out.val
                 /\ ReturnedId(a) =>
                       /\ ~b.wrote /\ ~b.inserted
                       /\ b.out.kind = "return" => b.out.val = a.out.val
                 /\ ~(a.inserted /\ b.inserted)

\* Two calls with the same bytes: the first inserted the one row, the second
\* returned its id and wrote nothing.
C1_Witness ==
    \E p \in CallPairs :
        LET a == cacheCalls[p[1]]
            b == cacheCalls[p[2]]
        IN  /\ a.data = b.data
            /\ a.inserted /\ ReturnedId(a)
            /\ b.out = a.out /\ ~b.wrote /\ ~b.inserted
            /\ Len(rows) = 1

RowMatchesFile(r, fs) ==
    /\ r.file_path \in DOMAIN fs
    /\ sha256(fs[r.file_path]) = r.sha256

\* C2 as stated, for the plainest runs it covers: after add_apod_to_cache
\* calls that each returned a record id (no step of any call failed), the
\* file of every row exists and the SHA-256 of its bytes is the row's sha256.
C2_RecordFileConsistency ==
    (\A k \in 1..Len(cacheCalls) : ReturnedId(cacheCalls[k]))
    => \A k \in 1..Len(rows) : RowMatchesFile(rows[k], files)

\* C3 as stated: an add_apod_to_cache call one of whose steps failed returns 0.
C3_FailureSentinel ==
    (last.op = "add_apod_to_cache" /\ last.failed # "none")
    => last.out = Return(0)

\* C4: an add_apod_to_cache call whose save_image_file fails returns 0 and
\* leaves the rows as they were; and a call that inserts a row has written
\* the row's file, with the bytes of the row's sha256, before.
C4_InsertIsLast ==
    [][last'.op = "add_apod_to_cache"
       => /\ last'.failed = "save" =>
                (last'.out = Return(0) /\ rows' = rows /\ dbCalls' = dbCalls)
          /\ \A k \in (Len(rows) + 1)..Len(rows') : RowMatchesFile(rows'[k], files')]_vars

\* A call whose file write failed returned 0, the row of an earlier call in place.
C4_Witness ==
    /\ last.op = "add_apod_to_cache"
    /\ last.failed = "save"
    /\ last.out = Return(0)
    /\ Len(rows) = 1
    /\ Len(cacheCalls) = 2

\* C5 as stated: an init_apod_cache call leaves every row as it was, and after
\* a call that succeeded (it returned, and no creation it attempted failed)
\* the cache directory and the table apod exist.
C5_InitIdempotence ==
    [][last'.op = "init_apod_cache"
       => /\ rows' = rows
          /\ (last'.out.kind = "return" /\ last'.failed = "none")
                => (dirExists' /\ tableExists')]_vars

\* C6 as stated: once init_apod_cache could not create the directory or the
\* schema, main has stopped: it does not go on to add_apod_to_cache.
C6_InitFailureIsFatal ==
    initFailed => pc = "exit"

\* The rows with a title, by position.
TitleHits(title) == {k \in 1..Len(rows) : rows[k].title = title}
RowInfo(r) ==
    Some([title |-> r.title, explanation |-> r.explanation,
          file_path |-> r.file_path])

\* C7 as stated: get_apod_info_by_title returns the row with the greatest id
\* among those with the title, None when there is none.
C7_Original ==
    (last.op = "get_apod_info_by_title" /\ last.out.kind = "return")
    => LET hits == TitleHits(last.arg)
       IN  IF hits = {} THEN last.out.val = None
           ELSE \E k \in hits :
                  /\ \A j \in hits : rows[j].id <= rows[k].id
                  /\ last.out.val = RowInfo(rows[k])

\* C7, amended: get_apod_info_by_title returns the earliest inserted row with
\* the title (the one with the smallest id), None when the table has no row
\* with the title; it raises when there is no table.
C7_TitleLookupFirstMatch ==
    last.op = "get_apod_info_by_title"
    => /\ ~tableExists => last.out.kind = "raise"
       /\ last.out.kind = "return" =>
             LET hits == TitleHits(last.arg)
             IN  IF hits = {} THEN last.out.val = None
                 ELSE \E k \in hits :
                        /\ \A j \in hits : rows[k].id <= rows[j].id
                        /\ last.out.val = RowInfo(rows[k])

\* Two rows with the title asked for, different in what the lookup returns;
\* the lookup returned the first.
C7_Witness ==
    /\ last.op = "get_apod_info_by_title"
    /\ last.out.kind = "return"
    /\ Len(rows) = 2
    /\ rows[1].title = last.arg /\ rows[2].title = last.arg
    /\ RowInfo(rows[1]) # RowInfo(rows[2])
    /\ last.out.val = RowInfo(rows[1])

\* The add_apod_to_db calls that returned, by position, with a digest.
ShaCalls(d) == {k \in 1..Len(dbCalls) : dbCalls[k].sha256 = d}

\* C8 as stated: get_apod_id_from_db(d) returns 0 when no add_apod_to_db call
\* was given d, and the id i of every add_apod_to_db(t, e, p, d) that returned.
C8_Original ==
    (last.op = "get_apod_id_from_db" /\ last.out.kind = "return")
    => /\ ShaCalls(last.arg) = {} => last.out.val = 0
       /\ \A k \in ShaCalls(last.arg) : last.out.val = dbCalls[k].id

\* C8, amended: get_apod_id_from_db(d) returns 0 when no add_apod_to_db call
\* was given d (on a fresh index: for every d), and otherwise the id returned
\* by the first add_apod_to_db call that was given d.
C8_MissThenHit ==
    (last.op = "get_apod_id_from_db" /\ last.out.kind = "return")
    => LET ks == ShaCalls(last.arg)
       IN  IF ks = {} THEN last.out.val = 0
           ELSE last.out.val = dbCalls[MinOf(ks)].id

\* A hit on the second row inserted, and with it a miss of no digest inserted.
C8_Witness ==
    /\ last.op = "get_apod_id_from_db"
    /\ last.out = Return(2)
    /\ Len(dbCalls) = 2
    /\ dbCalls[2].sha256 = last.arg
    /\ dbCalls[2].id = 2
    /\ dbCalls[1].sha256 # last.arg

Supplied(c) ==
    Some([title |-> c.title, explanation |-> c.explanation,
          file_path |-> c.file_path])

\* C9: for every add_apod_to_db call that returned an id, now or earlier, 
\* get_apod_info of that id returns the title, explanation and file_path the
\* call was given; get_apod_info of an id no call returned returns None.
C9_RoundTrip ==
    /\ \A k \in 1..Len(dbCalls) :
          get_apod_info(Store, dbCalls[k].id, "ok").out
             = Return(Supplied(dbCalls[k]))
    /\ (last.op = "get_apod_info" /\ last.out.kind = "return")
          => LET ks == {k \in 1..Len(dbCalls) : dbCalls[k].id = last.arg}
             IN  IF ks = {} THEN last.out.val = None
                 ELSE \A k \in ks : last.out.val = Supplied(dbCalls[k])

\* get_apod_info(1) returned what the first insert was given, after a second
\* insert of something else.
C9_Witness ==
    /\ last.op = "get_apod_info"
    /\ last.arg = 1
    /\ Len(dbCalls) = 2
    /\ dbCalls[1].id = 1
    /\ Supplied(dbCalls[1]) # Supplied(dbCalls[2])
    /\ last.out = Return(Supplied(dbCalls[1]))

\* C10: no step changes or removes a row, and the id an insert assigns is
\* greater than every id assigned before.
C10_RecordStability ==
    [][/\ Len(rows') >= Len(rows)
       /\ SubSeq(rows', 1, Len(rows)) = rows
       /\ \A k \in (Len(dbCalls) + 1)..Len(dbCalls') :
             \A j \in 1..Len(dbCalls) : dbCalls'[k].id > dbCalls[j].id]_vars

\* Two rows, the second with the greater id, still there after a later
\* init_apod_cache.
C10_Witness ==
    /\ last.op = "init_apod_cache"
    /\ Len(rows) = 2
    /\ Len(dbCalls) = 2
    /\ dbCalls[2].id > dbCalls[1].id
    /\ rows[1].id = dbCalls[1].id /\ rows[2].id = dbCalls[2].id

\* C11: for every title and image URL, determine_apod_file_path returns the
\* cache directory joined with a file name that has none of the characters
\* \ / * ? : " < > |, that keeps the other characters of the title in order,
\* and that ends with the URL's extension, or .jpg when the URL has none.
C11_PathResolution ==
    last.op = "determine_apod_file_path" =>
        LET path == last.out.val
            name == SubSeq(path, Len(image_cache_dir) + 2, Len(path))
            ext == splitext_ext(last.arg.url)
            suffix == IF ext = << >> THEN <<".", "j", "p", "g">> ELSE ext
            Legal(c) == c \notin IllegalChars
        IN  /\ path = image_cache_dir \o <<"/">> \o name
            /\ \A i \in 1..Len(name) : name[i] \notin IllegalChars
            /\ name = SelectSeq(last.arg.title, Legal) \o suffix

\* C12: two download threads whose downloads gave the same bytes can both
\* miss and both insert.  Every insert by a thread (it saw a miss) adds its
\* row whatever the table holds by then: the row has the digest of the
\* thread's bytes and an id no row had, which the call returns; and a row
\* with the same sha256 already there was inserted after the thread's lookup.
C12_ConcurrentInsertRace ==
    [][\A w \in Workers :
          (/\ workers[w].pc = "insert"
           /\ workers'[w].pc = "done"
           /\ The(workers'[w].out).kind = "return")
          => LET me == workers[w]
                 new == rows'[Len(rows')]
             IN  /\ rows' = Append(rows, new)
                 /\ new.sha256 = sha256(The(me.image_data))
                 /\ new.id \notin Ids(rows)
                 /\ The(workers'[w].out).val = new.id
                 /\ \A j \in 1..Len(rows) :
                       rows[j].sha256 = new.sha256 => j > me.seen]_vars

\* Both threads have returned from calls with the same bytes, each with the
\* id of its own row: two rows, different ids, the same sha256.
C12_Witness ==
    /\ \A w \in Workers :
          /\ workers[w].pc = "done"
          /\ The(workers[w].out).kind = "return"
          /\ The(workers[w].out).val # 0
    /\ workers["w1"].image_data = workers["w2"].image_data
    /\ The(workers["w1"].out).val # The(workers["w2"].out).val
    /\ \E j, k \in 1..Len(rows) :
          /\ rows[j].id = The(workers["w1"].out).val
          /\ rows[k].id = The(workers["w2"].out).val
          /\ rows[j].sha256 = rows[k].sha256
          /\ rows[j].sha256 = sha256(The(workers["w1"].image_data))

IndexOps ==
    {"add_apod_to_db", "get_apod_id_from_db", "get_apod_info",
     "get_apod_info_by_title", "get_all_apod_titles", "load_data"}

\* C13: whenever an index read or write has been executed (by a handler of
\* the viewer, or by one of its download threads, past its lookup), the cache
\* directory and the apod table have been created.
C13_InitPrecedesUse ==
    (\/ last.op \in IndexOps
     \/ \E w \in Workers : workers[w].pc \in {"save", "insert"})
    => dirExists /\ tableExists

\* C14: every index operation has closed the connection it opened by the
\* time it returns or raises: no call of one, failed ones included, leaves
\* more connections open than it found.
C14_NoLeakedHandle ==
    [][last'.op \in IndexOps => openConns' <= openConns]_vars

\* C15: a download thread whose add_apod_to_cache returned a non-zero id r
\* finds a row with id r and the digest of the bytes it downloaded; and every
\* id in the table is at least 1.
C15_ResultSoundness ==
    /\ \A w \in Workers :
          (/\ workers[w].pc = "done"
           /\ The(workers[w].out).kind = "return"
           /\ The(workers[w].out).val # 0)
          => \E k \in 1..Len(rows) :
                /\ rows[k].id = The(workers[w].out).val
                /\ rows[k].sha256 = sha256(The(workers[w].image_data))
    /\ \A k \in 1..Len(rows) : rows[k].id >= 1

\* A thread has returned a non-zero id while the table holds two rows with
\* different digests.
C15_Witness ==
    /\ Len(rows) = 2
    /\ rows[1].sha256 # rows[2].sha256
    /\ \E w \in Workers :
          /\ workers[w].pc = "done"
          /\ The(workers[w].out).kind = "return"
          /\ The(workers[w].out).val = 2

===========================================================================
